---- MODULE Spec2Model ----
(***************************************************************************)
(* A model of LCM_wrapper.py: the LCM class that encodes string            *)
(* transactions as integers, writes the transaction file, assembles the    *)
(* argument vector of the external lcm program and parses its output.      *)
(*                                                                         *)
(* Python strings are sequences of one-character strings, so that str(),   *)
(* " ".join, split and replace are computed and not assumed.  Python       *)
(* values whose type the code inspects are records                         *)
(*   [t |-> type tag, s |-> characters, n |-> integer, e |-> elements].    *)
(***************************************************************************)
EXTENDS Integers, Sequences, FiniteSets, TLC

VARIABLES
    itemlist,                \* self.itemlist
    item_name2id,            \* self.item_name2id  (label -> code)
    item_id2name,            \* self.item_id2name  (str(code) -> label)
    transaction_transformed, \* self.transaction_transformed
    attrs,                   \* self.min_support, .itemset_mining, .rule_for_item, .target
    results,                 \* self.item_source_list, .freq_list, .item_target_list,
                             \* .confidence_list, .items, .freq
    tfile,                   \* content of self.transactionfile, a list of lines
    ofile,                   \* content of self.outputfile, a list of lines
    engine,                  \* the most recent invocation of the lcm program
    last                     \* the most recent call: its name, arguments and outcome

vars == <<itemlist, item_name2id, item_id2name, transaction_transformed,
          attrs, results, tfile, ofile, engine, last>>

codec == <<itemlist, item_name2id, item_id2name, transaction_transformed>>

----------------------------------------------------------------------------
\* Bounds of the model.

\* the largest number of transactions of a corpus
MaxTrans == 2

\* the largest number of lines of the engine's output file
MaxLines == 2

----------------------------------------------------------------------------
\* Python values.

PyNone == [t |-> "none", s |-> <<>>, n |-> 0, e |-> <<>>]

PyStr(s) == [t |-> "str", s |-> s, n |-> 0, e |-> <<>>]

PyInt(n) == [t |-> "int", s |-> <<>>, n |-> n, e |-> <<>>]

\* a float, held as the text Python prints for it
PyFloat(s) == [t |-> "float", s |-> s, n |-> 0, e |-> <<>>]

PyList(e) == [t |-> "list", s |-> <<>>, n |-> 0, e |-> e]

Range(f) == {f[i] : i \in DOMAIN f}

AllOfType(seq, t) == \A i \in 1..Len(seq) : seq[i].t = t

\* identify_type: all() over an empty list is true, so [] is "list[str]"
identify_type(variable) ==
    IF variable.t = "str" THEN "str"
    ELSE IF variable.t = "int" THEN "int"
    ELSE IF variable.t = "list" THEN
        IF AllOfType(variable.e, "str") THEN "list[str]"
        ELSE IF AllOfType(variable.e, "int") THEN "list[int]"
        ELSE IF AllOfType(variable.e, "list")
                /\ \A i \in 1..Len(variable.e) : AllOfType(variable.e[i].e, "str")
             THEN "list[list[str]]"
        ELSE IF AllOfType(variable.e, "list")
                /\ \A i \in 1..Len(variable.e) : AllOfType(variable.e[i].e, "int")
             THEN "list[list[int]]"
        ELSE "unknown"
    ELSE "unknown"

----------------------------------------------------------------------------
\* Text.

Digits == <<"0", "1", "2", "3", "4", "5", "6", "7", "8", "9">>

\* str(n) of a non-negative int
RECURSIVE Str(_)
Str(n) == IF n < 10 THEN <<Digits[n + 1]>>
          ELSE Str(n \div 10) \o <<Digits[(n % 10) + 1]>>

\* sep.join(parts)
RECURSIVE Join(_, _)
Join(sep, parts) ==
    IF parts = <<>> THEN <<>>
    ELSE IF Len(parts) = 1 THEN parts[1]
    ELSE parts[1] \o sep \o Join(sep, Tail(parts))

IsSpace(c) == c \in {" ", "\t", "\n", "\r"}

\* s.split(): the maximal runs of non-whitespace characters
RECURSIVE SplitWs(_, _, _)
SplitWs(s, cur, acc) ==
    IF s = <<>> THEN (IF cur = <<>> THEN acc ELSE Append(acc, cur))
    ELSE IF IsSpace(Head(s))
         THEN SplitWs(Tail(s), <<>>, IF cur = <<>> THEN acc ELSE Append(acc, cur))
         ELSE SplitWs(Tail(s), Append(cur, Head(s)), acc)

Split(s) == SplitWs(s, <<>>, <<>>)

HasPrefix(s, p) == Len(s) >= Len(p) /\ SubSeq(s, 1, Len(p)) = p

\* s.split(sep) for a non-empty separator: always at least one part
RECURSIVE SplitSep(_, _, _, _)
SplitSep(s, sep, cur, acc) ==
    IF s = <<>> THEN Append(acc, cur)
    ELSE IF HasPrefix(s, sep)
         THEN SplitSep(SubSeq(s, Len(sep) + 1, Len(s)), sep, <<>>, Append(acc, cur))
         ELSE SplitSep(Tail(s), sep, Append(cur, Head(s)), acc)

SplitOn(s, sep) == SplitSep(s, sep, <<>>, <<>>)

\* s.replace(c, "") for a one-character c
Remove(s, c) == SelectSeq(s, LAMBDA x : x # c)

\* x.rstrip()
RECURSIVE RStrip(_)
RStrip(s) == IF s # <<>> /\ IsSpace(s[Len(s)]) THEN RStrip(SubSeq(s, 1, Len(s) - 1))
             ELSE s

IsDigit(c) == \E i \in 1..10 : Digits[i] = c

DigitVal(c) == (CHOOSE i \in 1..10 : Digits[i] = c) - 1

RECURSIVE IntOf(_, _)
IntOf(s, acc) == IF s = <<>> THEN acc
                 ELSE IntOf(Tail(s), 10 * acc + DigitVal(Head(s)))

\* int(s) of unsigned decimal text; anything else is a ValueError
ParseInt(s) == IF s # <<>> /\ (\A i \in 1..Len(s) : IsDigit(s[i]))
               THEN [err |-> "none", val |-> IntOf(s, 0)]
               ELSE [err |-> "ValueError", val |-> 0]

----------------------------------------------------------------------------
\* Dictionaries.

EmptyDict == [k \in {} |-> 0]

\* d[k] = v
DictSet(d, k, v) == [x \in DOMAIN d \cup {k} |-> IF x = k THEN v ELSE d[x]]

----------------------------------------------------------------------------
\* The item codec.

La == <<"a">>
Lb == <<"b">>
Lc == <<"c">>
\* a label of no corpus
Lz == <<"z">>

\* variant: start_from1 is ignored for the forward map
ItemCode_unshifted(i, start_from1) == i

\* the code given to the i-th (from 0) enumerated label
ItemCode(i, start_from1) == IF start_from1 THEN i + 1 ELSE i

\* variant: the one-based branch keys the reverse map by the zero-based index
ItemKey_unshifted(i, start_from1) == Str(i)

\* the key of item_id2name for the i-th (from 0) enumerated label
ItemKey(i, start_from1) == Str(IF start_from1 THEN i + 1 ELSE i)

\* for i, x in enumerate(itemlist): item_name2id[x] = ..; item_id2name[str(..)] = x
RECURSIVE BuildMaps(_, _, _, _, _)
BuildMaps(items, i, start_from1, n2i, i2n) ==
    IF i >= Len(items) THEN [item_name2id |-> n2i, item_id2name |-> i2n]
    ELSE BuildMaps(items, i + 1, start_from1,
                   DictSet(n2i, items[i + 1], ItemCode(i, start_from1)),
                   DictSet(i2n, ItemKey(i, start_from1), items[i + 1]))

\* itemlist.extend(x) for every transaction x
RECURSIVE Flatten(_)
Flatten(lists) == IF lists = <<>> THEN <<>>
                  ELSE Head(lists).e \o Flatten(Tail(lists))

\* the labels of a list of str values
Labels(pylist) == [i \in 1..Len(pylist) |-> pylist[i].s]

\* list(set(itemlist)): every enumeration order of the distinct labels
SetOrders(items) ==
    LET S == Range(items)
    IN  {f \in [1..Cardinality(S) -> S] : Range(f) = S}

\* transform_transaction, given the order in which the set enumerates
transform_transaction(transaction, start_from1, order) ==
    IF identify_type(transaction) # "list[list[str]]"
    THEN [err |-> "RuntimeError"]
    ELSE LET maps == BuildMaps(order, 0, start_from1, EmptyDict, EmptyDict)
             tr2 == [i \in 1..Len(transaction.e) |->
                       [j \in 1..Len(transaction.e[i].e) |->
                          maps.item_name2id[transaction.e[i].e[j].s]]]
         IN  [err |-> "none", itemlist |-> order,
              item_name2id |-> maps.item_name2id,
              item_id2name |-> maps.item_id2name,
              transaction_transformed |-> tr2]

\* for x in items: itemsout.append(d[x]), a KeyError at the first missing key
LookupAll(d, keys) ==
    IF \A i \in 1..Len(keys) : keys[i] \in DOMAIN d
    THEN [err |-> "none", vals |-> [i \in 1..Len(keys) |-> d[keys[i]]]]
    ELSE [err |-> "KeyError", vals |-> <<>>]

\* transform_items with self.item_name2id = n2i
transform_items(n2i, items) ==
    LET type_ == identify_type(items)
    IN  IF type_ = "list[str]" THEN
            LET r == LookupAll(n2i, Labels(items.e))
            IN  IF r.err = "none"
                THEN [err |-> "none", ret |-> PyList([k \in 1..Len(r.vals) |-> PyInt(r.vals[k])])]
                ELSE [err |-> r.err, ret |-> PyNone]
        ELSE IF type_ = "str" THEN
            IF items.s \in DOMAIN n2i
            THEN [err |-> "none", ret |-> PyInt(n2i[items.s])]
            ELSE [err |-> "KeyError", ret |-> PyNone]
        ELSE [err |-> "RuntimeError", ret |-> PyNone]

\* inverse_transform_items with self.item_id2name = i2n
inverse_transform_items(i2n, items) ==
    LET type_ == identify_type(items)
    IN  IF type_ = "list[str]" THEN
            LET r == LookupAll(i2n, Labels(items.e))
            IN  IF r.err = "none"
                THEN [err |-> "none", ret |-> PyList([k \in 1..Len(r.vals) |-> PyStr(r.vals[k])])]
                ELSE [err |-> r.err, ret |-> PyNone]
        ELSE IF type_ = "str" THEN
            IF items.s \in DOMAIN i2n
            THEN [err |-> "none", ret |-> PyStr(i2n[items.s])]
            ELSE [err |-> "KeyError", ret |-> PyNone]
        ELSE [err |-> "TypeError", ret |-> PyNone]

\* for rule in itemslist: rulelist2.append(inverse_transform_items(rule))
RECURSIVE InverseEach(_, _, _)
InverseEach(i2n, lists, acc) ==
    IF lists = <<>> THEN [err |-> "none", ret |-> PyList(acc)]
    ELSE LET r == inverse_transform_items(i2n, Head(lists))
         IN  IF r.err # "none" THEN [err |-> r.err, ret |-> PyNone]
             ELSE InverseEach(i2n, Tail(lists), Append(acc, r.ret))

\* inverse_transform_itemslist (and inverse_transform_transaction, which calls it)
inverse_transform_itemslist(i2n, itemslist) ==
    IF identify_type(itemslist) # "list[list[str]]"
    THEN [err |-> "TypeError", ret |-> PyNone]
    ELSE InverseEach(i2n, itemslist.e, <<>>)

----------------------------------------------------------------------------
\* The transaction file.

\* " ".join(list(map(str, x)))
Line(x) == Join(<<" ">>, [k \in 1..Len(x) |-> Str(x[k])])

\* targetid in x, for a list x of ints: == between an int and a str is False
Contains(targetid, x) == targetid.t = "int" /\ \E i \in 1..Len(x) : x[i] = targetid.n

\* variant: "if not targetid" in place of "if targetid is None"
Selected_falsy(targetid, x) ==
    \/ targetid.t = "none"
    \/ targetid.t = "int" /\ targetid.n = 0
    \/ Contains(targetid, x)

\* whether write_transaction writes the transaction x
Selected(targetid, x) == targetid.t = "none" \/ Contains(targetid, x)

\* the lines write_transaction leaves in the file opened with mode "w"
RECURSIVE write_transaction(_, _)
write_transaction(tt, targetid) ==
    IF tt = <<>> THEN <<>>
    ELSE (IF Selected(targetid, Head(tt)) THEN <<Line(Head(tt))>> ELSE <<>>)
         \o write_transaction(Tail(tt), targetid)

----------------------------------------------------------------------------
\* The argument vector.

Prog == <<"l", "c", "m">>
TransactionFile == <<"l", "c", "m", ".", "d", "a", "t">>
OutputFile == <<"l", "c", "m", ".", "o", "u", "t">>

itemset_mining_dic ==
    ("frequent" :> "F") @@ ("closed_frequent" :> "C")
    @@ ("maximal_frequent" :> "M") @@ ("positive-closed" :> "P")

OPTION_DEFAULT ==
    ("min_confidence" :> PyFloat(<<"0", ".", "5">>)) @@ ("min_itemset_size" :> PyInt(1))

\* {**OPTION_DEFAULT, **option}
MergeOption(option) == option @@ OPTION_DEFAULT

\* the text an f-string or format() gives for a value
Fmt(v) == IF v.t = "int" THEN Str(v.n)
          ELSE IF v.t = "none" THEN <<"N", "o", "n", "e">>
          ELSE v.s

Flag(letter, v) == <<"-", letter, " ">> \o Fmt(v)

\* variant: the check of line 308 is missing
BothGiven_off(rule_for_item, target) == FALSE

\* rule_for_item is not None and target is not None
BothGiven(rule_for_item, target) == rule_for_item.t # "none" /\ target.t # "none"

\* variant: -A is appended to -a
ConfidenceFlags_additive(option) ==
    (IF "min_confidence" \in DOMAIN option
     THEN <<Flag("a", option["min_confidence"])>> ELSE <<>>)
    \o (IF "max_confidence" \in DOMAIN option
        THEN <<Flag("A", option["max_confidence"])>> ELSE <<>>)

\* optadd after lines 317-320: -A replaces -a
ConfidenceFlags(option) ==
    IF "max_confidence" \in DOMAIN option
    THEN <<Flag("A", option["max_confidence"])>>
    ELSE IF "min_confidence" \in DOMAIN option
    THEN <<Flag("a", option["min_confidence"])>>
    ELSE <<>>

\* the two appends of -l and -u
SizeFlags(option) ==
    (IF "min_itemset_size" \in DOMAIN option
     THEN <<Flag("l", option["min_itemset_size"])>> ELSE <<>>)
    \o (IF "max_itemset_size" \in DOMAIN option
        THEN <<Flag("u", option["max_itemset_size"])>> ELSE <<>>)

\* variant: the three templates are mixed up
ModeFlag_swapped(letter, variant) ==
    <<letter>> \o (IF variant = "rule" THEN <<"R", "f", "s">>
                   ELSE IF variant = "target" THEN <<"f", "s">>
                   ELSE <<"f", "R", "s">>)

\* opt of lines 313, 334 and 350
ModeFlag(letter, variant) ==
    <<letter>> \o (IF variant = "rule" THEN <<"f", "R", "s">>
                   ELSE IF variant = "target" THEN <<"f", "s">>
                   ELSE <<"R", "f", "s">>)

\* run up to its call of write_transaction: the error raised before it, or
\* opt, optadd and the target of the write
RunPlan(n2i, itemset_mining, rule_for_item, target, option0) ==
    LET option == MergeOption(option0)
        fail(e) == [err |-> e, variant |-> "none", opt |-> <<>>, optadd |-> <<>>,
                    targetid |-> PyNone]
    IN  IF BothGiven(rule_for_item, target) THEN fail("RuntimeError")
        ELSE IF rule_for_item.t # "none" /\ target.t = "none" THEN
            IF itemset_mining \notin DOMAIN itemset_mining_dic THEN fail("KeyError")
            ELSE LET id == IF Len(rule_for_item.s) > 0
                           THEN transform_items(n2i, rule_for_item)
                           ELSE [err |-> "none", ret |-> PyNone]
                 IN  IF id.err # "none" THEN fail(id.err)
                     ELSE [err |-> "none", variant |-> "rule",
                           opt |-> ModeFlag(itemset_mining_dic[itemset_mining], "rule"),
                           optadd |-> ConfidenceFlags(option) \o SizeFlags(option)
                                      \o (IF Len(rule_for_item.s) > 0
                                          THEN <<Flag("i", id.ret)>> ELSE <<>>),
                           targetid |-> PyNone]
        ELSE IF rule_for_item.t = "none" /\ target.t # "none" THEN
            IF itemset_mining \notin DOMAIN itemset_mining_dic THEN fail("KeyError")
            ELSE LET id == transform_items(n2i, target)
                 IN  IF id.err # "none" THEN fail(id.err)
                     ELSE [err |-> "none", variant |-> "target",
                           opt |-> ModeFlag(itemset_mining_dic[itemset_mining], "target"),
                           optadd |-> SizeFlags(option),
                           targetid |-> id.ret]
        ELSE IF target.t = "none" /\ rule_for_item.t = "none" THEN
            IF itemset_mining \notin DOMAIN itemset_mining_dic THEN fail("KeyError")
            ELSE [err |-> "none", variant |-> "all",
                  opt |-> ModeFlag(itemset_mining_dic[itemset_mining], "all"),
                  optadd |-> SizeFlags(option),
                  targetid |-> PyNone]
        ELSE fail("UnboundLocalError")

\* cmd_list of lines 366-370
CmdList(opt, optadd, min_support) ==
    <<Prog, opt>> \o Split(Join(<<" ">>, optadd))
    \o <<TransactionFile, Fmt(min_support), OutputFile>>

----------------------------------------------------------------------------
\* The result parser.

\* read_lines: every line of the output file, rstripped
read_lines(file) == [k \in 1..Len(file) |-> RStrip(file[k])]

ListOfStr(strs) == PyList([k \in 1..Len(strs) |-> PyStr(strs[k])])

\* seq[:-1]
ButLast(seq) == SubSeq(seq, 1, Len(seq) - 1)

Unparen(s) == Remove(Remove(s, "("), ")")

\* the body of the loop of read_rule for the line x
ParseRuleLine(x) ==
    LET s == SplitOn(x, <<"<", "=">>)
        bad == [err |-> "IndexError", item_source |-> <<>>, support |-> <<>>,
                item_target |-> <<>>, confidence |-> <<>>]
    IN  IF Len(s) < 2 THEN bad
        ELSE LET st == Split(s[1])
                 ss == Split(s[2])
             IN  IF Len(st) < 2 THEN bad
                 ELSE IF Len(ss) < 1 THEN bad
                 ELSE [err |-> "none",
                       item_source |-> ButLast(ss),
                       support |-> Unparen(ss[Len(ss)]),
                       item_target |-> st[2],
                       confidence |-> SplitOn(Unparen(st[1]), <<",">>)[1]]

NoRows == [err |-> "none", item_source_list |-> <<>>, freq_list |-> <<>>,
           item_target_list |-> <<>>, confidence_list |-> <<>>]

\* variant: a line that does not parse ends the loop, the rows so far are kept
RECURSIVE RuleLoop_partial(_, _)
RuleLoop_partial(lines, acc) ==
    IF lines = <<>> THEN acc
    ELSE LET r == ParseRuleLine(Head(lines))
         IN  IF r.err # "none" THEN acc
             ELSE RuleLoop_partial(Tail(lines),
                    [err |-> "none",
                     item_source_list |-> Append(acc.item_source_list, r.item_source),
                     freq_list |-> Append(acc.freq_list, r.support),
                     item_target_list |-> Append(acc.item_target_list, r.item_target),
                     confidence_list |-> Append(acc.confidence_list, r.confidence)])

\* the loop of read_rule: the four lists, or the error of the first bad line
RECURSIVE RuleLoop(_, _)
RuleLoop(lines, acc) ==
    IF lines = <<>> THEN acc
    ELSE LET r == ParseRuleLine(Head(lines))
         IN  IF r.err # "none" THEN [acc EXCEPT !.err = r.err]
             ELSE RuleLoop(Tail(lines),
                    [err |-> "none",
                     item_source_list |-> Append(acc.item_source_list, r.item_source),
                     freq_list |-> Append(acc.freq_list, r.support),
                     item_target_list |-> Append(acc.item_target_list, r.item_target),
                     confidence_list |-> Append(acc.confidence_list, r.confidence)])

\* read_rule: whether the four attributes were assigned, their values, and
\* the error or the dict returned
read_rule(i2n, file) ==
    LET rows == RuleLoop(read_lines(file), NoRows)
    IN  IF rows.err # "none"
        THEN [err |-> rows.err, stored |-> FALSE, rows |-> NoRows, ret |-> PyNone]
        ELSE LET src == inverse_transform_itemslist(i2n,
                           PyList([k \in 1..Len(rows.item_source_list) |-> ListOfStr(rows.item_source_list[k])]))
                 tgt == inverse_transform_items(i2n, ListOfStr(rows.item_target_list))
             IN  IF src.err # "none"
                 THEN [err |-> src.err, stored |-> TRUE, rows |-> rows, ret |-> PyNone]
                 ELSE IF tgt.err # "none"
                 THEN [err |-> tgt.err, stored |-> TRUE, rows |-> rows, ret |-> PyNone]
                 ELSE [err |-> "none", stored |-> TRUE, rows |-> rows,
                       ret |-> [frequency |-> rows.freq_list,
                                confidence |-> rows.confidence_list,
                                source_items |-> src.ret,
                                target_item |-> tgt.ret]]

\* the body of the loop of read_freq for the line x
ParseFreqLine(i2n, x) ==
    LET s == Split(x)
        items_tr == inverse_transform_items(i2n, ListOfStr(ButLast(s)))
        bad(e) == [err |-> e, items |-> PyNone, freq |-> 0]
    IN  IF items_tr.err # "none" THEN bad(items_tr.err)
        ELSE IF Len(s) < 1 THEN bad("IndexError")
        ELSE LET fr == ParseInt(Unparen(s[Len(s)]))
             IN  IF fr.err # "none" THEN bad(fr.err)
                 ELSE [err |-> "none", items |-> items_tr.ret, freq |-> fr.val]

\* the loop of read_freq
RECURSIVE FreqLoop(_, _, _)
FreqLoop(i2n, lines, acc) ==
    IF lines = <<>> THEN acc
    ELSE LET r == ParseFreqLine(i2n, Head(lines))
         IN  IF r.err # "none" THEN [acc EXCEPT !.err = r.err]
             ELSE FreqLoop(i2n, Tail(lines),
                    [err |-> "none", items |-> Append(acc.items, r.items),
                     freq |-> Append(acc.freq, r.freq)])

\* read_freq: whether self.items and self.freq were assigned, their values,
\* and the error or the dict returned
read_freq(i2n, file) ==
    LET rows == FreqLoop(i2n, read_lines(file),
                         [err |-> "none", items |-> <<>>, freq |-> <<>>])
    IN  IF rows.err # "none"
        THEN [err |-> rows.err, stored |-> FALSE, rows |-> rows, ret |-> PyNone]
        ELSE [err |-> "none", stored |-> TRUE, rows |-> rows,
              ret |-> [frequency |-> rows.freq, items |-> rows.items]]

----------------------------------------------------------------------------
\* The inputs the calls are given.

Tr(labels) == ListOfStr(labels)

\* the transactions corpora are made of: empty, single, with a repeated
\* label, with the labels in two orders
TransPool == {Tr(<<>>), Tr(<<La>>), Tr(<<Lb, La>>), Tr(<<La, Lb, La>>)}

SeqsUpTo(S, n) == UNION {[1..k -> S] : k \in 0..n}

\* every corpus of at most MaxTrans transactions, the empty one included
Corpora == {PyList(c) : c \in SeqsUpTo(TransPool, MaxTrans)}

\* values that are no list of lists of str
BadCorpora == {Tr(<<La>>), PyList(<<PyList(<<PyInt(1)>>)>>), PyStr(La)}

\* the corpora an instance can be constructed from
BuildableCorpora == {c \in Corpora : identify_type(c) = "list[list[str]]"}

SmallCorpora == {PyList(<<Tr(<<La, Lb>>), Tr(<<Lb>>)>>), PyList(<<Tr(<<Lb, La, Lc>>)>>)}

\* what transform_transaction is called with on a constructed instance
RebuildCorpora == SmallCorpora \cup BadCorpora \cup {PyList(<<>>), PyList(<<Tr(<<>>)>>)}

\* what transform_items is called with
ItemInputs == TransPool \cup {PyStr(La), PyStr(Lb), PyStr(Lz), Tr(<<La, Lz>>),
                              PyInt(0), PyNone}

\* the decimal text of every code of an encoded value
StrCodes(v) == IF v.t = "int" THEN PyStr(Str(v.n))
               ELSE IF v.t = "list" THEN PyList([i \in 1..Len(v.e) |-> PyStr(Str(v.e[i].n))])
               ELSE v

\* what inverse_transform_items is called with: what transform_items returns,
\* as it is and as text, and codes of no label
DecodeInputs ==
    LET enc == {transform_items(item_name2id, x).ret : x \in ItemInputs}
    IN  enc \cup {StrCodes(v) : v \in enc} \cup {PyStr(Str(9)), Tr(<<Str(0), Str(9)>>)}

----------------------------------------------------------------------------
\* The state after construction and the calls.

NoAttrs == [set |-> FALSE, min_support |-> PyNone, itemset_mining |-> "",
            rule_for_item |-> PyNone, target |-> PyNone]

NoResults == [rule_set |-> FALSE, rule |-> NoRows,
              freq_set |-> FALSE, items |-> <<>>, freq |-> <<>>]

Call(op, args, err, ret) ==
    [op |-> op, args |-> args, err |-> err, ret |-> ret,
     opened |-> FALSE, invoked |-> FALSE]

\* LCM(prog, corpus): __init__ ends with transform_transaction(self.transaction)
Constructed(corpus) ==
    \E order \in SetOrders(Labels(Flatten(corpus.e))) :
        LET r == transform_transaction(corpus, FALSE, order)
        IN  /\ itemlist = r.itemlist
            /\ item_name2id = r.item_name2id
            /\ item_id2name = r.item_id2name
            /\ transaction_transformed = r.transaction_transformed
            /\ attrs = NoAttrs
            /\ results = NoResults
            /\ tfile = <<>>     \* neither file has content yet
            /\ ofile = <<>>
            /\ engine = [argv |-> <<>>, variant |-> "none"]
            /\ last = Call("__init__", corpus, "none", PyNone)

TransformTransaction(transaction, start_from1) ==
    /\ IF identify_type(transaction) # "list[list[str]]"
       THEN /\ UNCHANGED codec
            /\ last' = Call("transform_transaction", [transaction |-> transaction,
                            start_from1 |-> start_from1], "RuntimeError", PyNone)
       ELSE \E order \in SetOrders(Labels(Flatten(transaction.e))) :
              LET r == transform_transaction(transaction, start_from1, order)
              IN  /\ itemlist' = r.itemlist
                  /\ item_name2id' = r.item_name2id
                  /\ item_id2name' = r.item_id2name
                  /\ transaction_transformed' = r.transaction_transformed
                  /\ last' = Call("transform_transaction", [transaction |-> transaction,
                                  start_from1 |-> start_from1], r.err,
                                  r.transaction_transformed)
    /\ UNCHANGED <<attrs, results, tfile, ofile, engine>>

TransformItems(items) ==
    LET r == transform_items(item_name2id, items)
    IN  /\ last' = Call("transform_items", items, r.err, r.ret)
        /\ UNCHANGED <<codec, attrs, results, tfile, ofile, engine>>

InverseTransformItems(items) ==
    LET r == inverse_transform_items(item_id2name, items)
    IN  /\ last' = Call("inverse_transform_items", items, r.err, r.ret)
        /\ UNCHANGED <<codec, attrs, results, tfile, ofile, engine>>

WriteTransaction(targetid) ==
    /\ tfile' = write_transaction(transaction_transformed, targetid)
    /\ last' = [Call("write_transaction", targetid, "none", PyNone)
                  EXCEPT !.opened = TRUE]
    /\ UNCHANGED <<codec, attrs, results, ofile, engine>>

\* run: rc and out are the engine's exit code and the output file it leaves
Run(min_support, itemset_mining, rule_for_item, target, option, rc, out) ==
    LET plan == RunPlan(item_name2id, itemset_mining, rule_for_item, target, option)
    IN  /\ attrs' = [set |-> TRUE, min_support |-> min_support,
                     itemset_mining |-> itemset_mining,
                     rule_for_item |-> rule_for_item, target |-> target]
        /\ IF plan.err # "none"
           THEN /\ last' = Call("run", option, plan.err, PyNone)
                /\ UNCHANGED <<tfile, ofile, engine>>
           ELSE /\ tfile' = write_transaction(transaction_transformed, plan.targetid)
                /\ engine' = [argv |-> CmdList(plan.opt, plan.optadd, min_support),
                              variant |-> plan.variant]
                /\ ofile' = IF rc = 0 THEN out ELSE ofile
                /\ last' = [Call("run", option, "none", PyInt(rc))
                              EXCEPT !.opened = TRUE, !.invoked = TRUE]
        /\ UNCHANGED <<codec, results>>

ReadRule ==
    LET r == read_rule(item_id2name, ofile)
    IN  /\ results' = IF r.stored
                      THEN [results EXCEPT !.rule_set = TRUE, !.rule = r.rows]
                      ELSE results
        /\ last' = Call("read_rule", "rule", r.err, r.ret)
        /\ UNCHANGED <<codec, attrs, tfile, ofile, engine>>

ReadFreq ==
    LET r == read_freq(item_id2name, ofile)
    IN  /\ results' = IF r.stored
                      THEN [results EXCEPT !.freq_set = TRUE, !.items = r.rows.items,
                                           !.freq = r.rows.freq]
                      ELSE results
        /\ last' = Call("read_freq", "freq", r.err, r.ret)
        /\ UNCHANGED <<codec, attrs, tfile, ofile, engine>>

\* read: self.rule_for_item does not exist before the first run
Read ==
    IF ~attrs.set
    THEN /\ last' = Call("read", "none", "AttributeError", PyNone)
         /\ UNCHANGED <<codec, attrs, results, tfile, ofile, engine>>
    ELSE IF attrs.rule_for_item.t # "none"
    THEN LET r == read_rule(item_id2name, ofile)
         IN  /\ results' = IF r.stored
                           THEN [results EXCEPT !.rule_set = TRUE, !.rule = r.rows]
                           ELSE results
             /\ last' = Call("read", "rule", r.err, r.ret)
             /\ UNCHANGED <<codec, attrs, tfile, ofile, engine>>
    ELSE LET r == read_freq(item_id2name, ofile)
         IN  /\ results' = IF r.stored
                           THEN [results EXCEPT !.freq_set = TRUE,
                                                !.items = r.rows.items,
                                                !.freq = r.rows.freq]
                           ELSE results
             /\ last' = Call("read", "freq", r.err, r.ret)
             /\ UNCHANGED <<codec, attrs, tfile, ofile, engine>>

----------------------------------------------------------------------------
\* The codec alone, over every corpus within the bounds.

InitCodec == \E corpus \in BuildableCorpora : Constructed(corpus)

NextCodec ==
    \/ \E c \in RebuildCorpora, b \in BOOLEAN : TransformTransaction(c, b)
    \/ \E x \in ItemInputs : TransformItems(x)
    \/ \E x \in DecodeInputs : InverseTransformItems(x)

SpecCodec == InitCodec /\ [][NextCodec]_vars

----------------------------------------------------------------------------
\* What the engine leaves in the output file.

\* "(conf[,conf2]) target <= source ... (support)"
RuleLine(rec) ==
    <<"(">> \o rec.conf \o (IF rec.conf2 = <<>> THEN <<>> ELSE <<",">> \o rec.conf2)
    \o <<")", " ">> \o Str(rec.target) \o <<" ", "<", "=">>
    \o Join(<<>>, [i \in 1..Len(rec.sources) |-> <<" ">> \o Str(rec.sources[i])])
    \o <<" ", "(">> \o Str(rec.support) \o <<")">>

\* "code ... (support)"
FreqLine(codes, support) ==
    Join(<<>>, [i \in 1..Len(codes) |-> Str(codes[i]) \o <<" ">>])
    \o <<"(">> \o Str(support) \o <<")">>

\* rules over the codes 0..2: two sources and a confidence pair, no source
RuleRecs ==
    {[conf |-> <<"0", ".", "8">>, conf2 |-> <<"0", ".", "9">>, target |-> 0,
      sources |-> <<1, 2>>, support |-> 4],
     [conf |-> <<"1">>, conf2 |-> <<>>, target |-> 1, sources |-> <<>>, support |-> 12]}

\* the rule lines and a line of the other grammar, which has no "<="
OutLines == {RuleLine(r) : r \in RuleRecs} \cup {FreqLine(<<0, 1>>, 3)}

\* every output file of at most MaxLines lines
OutFiles == SeqsUpTo(OutLines, MaxLines)

FewOutFiles == {<<FreqLine(<<0, 1>>, 3)>>,
                <<RuleLine([conf |-> <<"1">>, conf2 |-> <<>>, target |-> 1,
                            sources |-> <<0>>, support |-> 2])>>}

----------------------------------------------------------------------------
\* Every operation, on small inputs.

Init == \E corpus \in {PyList(<<Tr(<<La, Lb>>), Tr(<<Lb>>)>>)} : Constructed(corpus)

Next ==
    \/ \E c \in {PyList(<<Tr(<<Lb, La>>)>>), PyList(<<>>)}, b \in BOOLEAN :
          TransformTransaction(c, b)
    \/ TransformItems(Tr(<<Lb, La>>))
    \/ InverseTransformItems(Tr(<<Str(1), Str(0)>>))
    \/ \E t \in {PyNone, PyInt(0)} : WriteTransaction(t)
    \/ \E rule \in {PyNone, PyStr(La)}, target \in {PyNone, PyStr(Lb), PyStr(Lz)},
          out \in FewOutFiles :
          Run(PyInt(1), "closed_frequent", rule, target, EmptyDict, 0, out)
    \/ Read

Spec == Init /\ [][Next]_vars

----------------------------------------------------------------------------
\* The transaction writer and the command builder, over run's arguments.

Options ==
    {EmptyDict,
     "max_confidence" :> PyFloat(<<"0", ".", "9">>),
     ("min_confidence" :> PyFloat(<<"0", ".", "7">>)) @@ ("max_itemset_size" :> PyInt(3)),
     ("min_itemset_size" :> PyInt(2)) @@ ("max_itemset_size" :> PyInt(10))
        @@ ("max_confidence" :> PyInt(1))}

Modes == {"frequent", "closed_frequent", "maximal_frequent", "positive-closed",
          "positive_closed"}

RunArgs(ms, modes, rules, targets, options) ==
    [min_support : ms, itemset_mining : modes, rule_for_item : rules,
     target : targets, option : options]

\* the calls of run: every mode in every variant, every option map in every
\* variant, both of target and rule_for_item given, labels of no transaction
RunInputs ==
         RunArgs({PyInt(1)}, Modes, {PyNone, PyStr(La)}, {PyNone}, {EmptyDict})
    \cup RunArgs({PyInt(1)}, Modes, {PyNone}, {PyStr(Lb)}, {EmptyDict})
    \cup RunArgs({PyInt(12)}, {"closed_frequent"}, {PyNone, PyStr(La), PyStr(<<>>)},
                 {PyNone}, Options)
    \cup RunArgs({PyInt(12)}, {"closed_frequent"}, {PyNone}, {PyStr(Lb)}, Options)
    \cup RunArgs({PyInt(1), PyInt(12)}, {"frequent", "positive_closed"},
                 {PyStr(La), PyStr(<<>>), PyStr(Lz)}, {PyStr(Lb)},
                 {EmptyDict, "max_confidence" :> PyFloat(<<"0", ".", "9">>)})
    \cup RunArgs({PyInt(1)}, {"maximal_frequent"}, {PyNone, PyStr(Lz)},
                 {PyNone, PyStr(Lz)}, {EmptyDict})

NextRun ==
    \/ \E t \in {PyNone, PyStr(Str(0))} \cup {PyInt(c) : c \in 0..3} : WriteTransaction(t)
    \/ \E a \in RunInputs :
          Run(a.min_support, a.itemset_mining, a.rule_for_item, a.target, a.option,
              0, <<>>)

InitRun == \E corpus \in SmallCorpora : Constructed(corpus)

SpecRun == InitRun /\ [][NextRun]_vars

----------------------------------------------------------------------------
\* The rule parser, over the engine's output files.

InitRead == \E corpus \in {PyList(<<Tr(<<Lb, La, Lc>>)>>)} : Constructed(corpus)

NextRead ==
    \/ \E out \in OutFiles :
          Run(PyInt(1), "closed_frequent", PyStr(La), PyNone, EmptyDict, 0, out)
    \/ Read
    \/ ReadRule

SpecRead == InitRead /\ [][NextRead]_vars

----------------------------------------------------------------------------
\* Properties of the codec.

\* a label, or a list of labels, each of which has a code
Encodable(T) == T.t \in {"str", "list"} /\ transform_items(item_name2id, T).err = "none"

Encoded(T) == transform_items(item_name2id, T).ret

\* C1, as claimed: inverse_transform_items applied to what transform_items
\* returns for a label or a list of labels of the corpus gives back that
\* label or list.
RoundTripDirect ==
    last.op = "inverse_transform_items" =>
        \A T \in ItemInputs :
            (Encodable(T) /\ last.args = Encoded(T)) =>
                (last.err = "none" /\ last.ret = T)

\* C1, amended: inverse_transform_items applied to the decimal text of the
\* codes transform_items returns gives back the label or the list of labels,
\* item by item and in order, with either offset.
RoundTripText ==
    last.op = "inverse_transform_items" =>
        \A T \in ItemInputs :
            (Encodable(T) /\ last.args = StrCodes(Encoded(T))) =>
                (last.err = "none" /\ last.ret = T)

\* a list with a repeated label went through both calls, one-based codes
RoundTripTextWitness ==
    /\ last.op = "inverse_transform_items"
    /\ last.err = "none"
    /\ last.ret = Tr(<<La, Lb, La>>)
    /\ last.args = StrCodes(Encoded(Tr(<<La, Lb, La>>)))
    /\ last.args # Encoded(Tr(<<La, Lb, La>>))
    /\ 0 \notin Range(item_name2id)

\* C2: item_name2id and item_id2name are inverses of each other in every
\* state: after a build every label of the corpus has a code, no two labels
\* share a code, the text of a label's code maps back to the label, and the
\* two maps have the same size.
Bijection ==
    /\ (last.op = "transform_transaction" /\ last.err = "none") =>
           DOMAIN item_name2id = {x.s : x \in Range(Flatten(last.args.transaction.e))}
    /\ last.op = "__init__" =>
           DOMAIN item_name2id = {x.s : x \in Range(Flatten(last.args.e))}
    /\ \A x \in DOMAIN item_name2id :
           /\ Str(item_name2id[x]) \in DOMAIN item_id2name
           /\ item_id2name[Str(item_name2id[x])] = x
    /\ \A x, y \in DOMAIN item_name2id :
           item_name2id[x] = item_name2id[y] => x = y
    /\ Cardinality(DOMAIN item_name2id) = Cardinality(DOMAIN item_id2name)

\* one-based maps of two labels, after a run and a read
BijectionWitness ==
    /\ last.op = "read"
    /\ engine.argv # <<>>
    /\ Cardinality(DOMAIN item_name2id) = 2
    /\ Range(item_name2id) = {1, 2}

\* C6: transform_transaction of an empty list of transactions succeeds and
\* leaves two empty maps.
EmptyCorpusBuilds ==
    (last.op = "transform_transaction" /\ last.args.transaction = PyList(<<>>)) =>
        /\ last.err = "none"
        /\ item_name2id = EmptyDict
        /\ item_id2name = EmptyDict

----------------------------------------------------------------------------
\* Properties of the transaction writer and of run.

\* C3: after write_transaction(c) the file holds the lines of exactly the
\* encoded transactions that contain the code c, in corpus order, and
\* after write_transaction(None) one line per transaction; nothing else.
FilteredFile ==
    (last.op = "write_transaction" /\ last.args.t \in {"none", "int"}) =>
        LET keep(x) == last.args.t = "none" \/ last.args.n \in Range(x)
            kept == SelectSeq(transaction_transformed, keep)
        IN  /\ Len(tfile) = Len(kept)
            /\ \A i \in 1..Len(kept) :
                   Split(tfile[i]) = [j \in 1..Len(kept[i]) |-> Str(kept[i][j])]

\* code 0 selected some but not all of the transactions
FilteredFileWitness ==
    /\ last.op = "write_transaction"
    /\ last.args = PyInt(0)
    /\ Len(tfile) > 0
    /\ Len(tfile) < Len(transaction_transformed)

\* the last call was run with both rule_for_item and target
BothCall == /\ last.op = "run"
            /\ attrs.rule_for_item.t # "none"
            /\ attrs.target.t # "none"

\* C5: a run with both target and rule_for_item raises RuntimeError and
\* leaves the transaction file, the output file and the engine untouched,
\* whatever min_support, the mode and the options.
BothRejected ==
    [][BothCall' => /\ last'.err = "RuntimeError"
                    /\ ~last'.opened /\ ~last'.invoked
                    /\ tfile' = tfile /\ ofile' = ofile /\ engine' = engine]_vars

\* a rejected call on an instance that has run the engine before
BothRejectedWitness ==
    /\ BothCall
    /\ last.err = "RuntimeError"
    /\ tfile # <<>>
    /\ engine.argv # <<>>
    /\ attrs.itemset_mining = "positive_closed"
    /\ attrs.min_support = PyInt(12)

\* the template of the table for a call
Template ==
    IF attrs.rule_for_item.t # "none" THEN <<"f", "R", "s">>
    ELSE IF attrs.target.t # "none" THEN <<"f", "s">>
    ELSE <<"R", "f", "s">>

\* a run with one of target and rule_for_item at most, of labels that have
\* a code
ProperCall ==
    /\ last.op = "run"
    /\ ~(attrs.rule_for_item.t # "none" /\ attrs.target.t # "none")
    /\ attrs.rule_for_item.t # "none" =>
           attrs.rule_for_item.s \in DOMAIN item_name2id \cup {<<>>}
    /\ attrs.target.t # "none" => attrs.target.s \in DOMAIN item_name2id

\* C7, as claimed: for the modes frequent, closed_frequent, maximal_frequent
\* and positive_closed the engine is given the letter F, C, M or P followed
\* by the template of the variant.
ModeFlagSpecNames ==
    LET letter == [frequent |-> "F", closed_frequent |-> "C",
                   maximal_frequent |-> "M", positive_closed |-> "P"]
    IN  (ProperCall /\ attrs.itemset_mining \in DOMAIN letter) =>
            /\ last.invoked
            /\ engine.argv[2] = <<letter[attrs.itemset_mining]>> \o Template

\* C7, amended: the same with the fourth mode spelled positive-closed, as
\* the code and its docstring spell it.
ModeFlagCodeNames ==
    LET letter == ("frequent" :> "F") @@ ("closed_frequent" :> "C")
                  @@ ("maximal_frequent" :> "M") @@ ("positive-closed" :> "P")
    IN  (ProperCall /\ attrs.itemset_mining \in DOMAIN letter) =>
            /\ last.invoked
            /\ engine.argv[2] = <<letter[attrs.itemset_mining]>> \o Template

\* a rule run in mode positive-closed
ModeFlagWitness ==
    /\ ProperCall
    /\ last.invoked
    /\ attrs.itemset_mining = "positive-closed"
    /\ attrs.rule_for_item = PyStr(La)
    /\ engine.argv[2] = <<"P", "f", "R", "s">>

\* C8: between the mode flag and the transaction file the vector holds, in
\* this order, -a min_confidence (rule mode, no max_confidence), -A
\* max_confidence (rule mode), -l min_itemset_size, -u max_itemset_size and
\* -i code (rule mode, non-empty rule item); it ends with the transaction
\* file, min_support and the output file.
OptionFlags ==
    (last.op = "run" /\ last.invoked) =>
        LET option == last.args
            rule == attrs.rule_for_item.t # "none"
            given(k) == k \in DOMAIN option
            min_confidence == IF given("min_confidence")
                              THEN Fmt(option["min_confidence"])
                              ELSE <<"0", ".", "5">>
            min_itemset_size == IF given("min_itemset_size")
                                THEN Fmt(option["min_itemset_size"]) ELSE <<"1">>
            flags ==
                (IF rule /\ ~given("max_confidence")
                 THEN << <<"-", "a">>, min_confidence >> ELSE <<>>)
                \o (IF rule /\ given("max_confidence")
                    THEN << <<"-", "A">>, Fmt(option["max_confidence"]) >> ELSE <<>>)
                \o << <<"-", "l">>, min_itemset_size >>
                \o (IF given("max_itemset_size")
                    THEN << <<"-", "u">>, Fmt(option["max_itemset_size"]) >> ELSE <<>>)
                \o (IF rule /\ attrs.rule_for_item.s # <<>>
                    THEN << <<"-", "i">>, Str(item_name2id[attrs.rule_for_item.s]) >>
                    ELSE <<>>)
            n == Len(engine.argv)
        IN  /\ n = Len(flags) + 5
            /\ SubSeq(engine.argv, 3, n - 3) = flags
            /\ SubSeq(engine.argv, n - 2, n)
                 = <<TransactionFile, Fmt(attrs.min_support), OutputFile>>
            /\ ~rule => \A i \in 1..n :
                   engine.argv[i] \notin {<<"-", "a">>, <<"-", "A">>, <<"-", "i">>}

\* a rule run with min and max confidence both in force and a rule item
OptionFlagsWitness ==
    /\ last.op = "run"
    /\ last.invoked
    /\ attrs.rule_for_item = PyStr(La)
    /\ "max_confidence" \in DOMAIN last.args
    /\ "max_itemset_size" \in DOMAIN last.args
    /\ Len(engine.argv) = 13

\* C4: read parses rules exactly when the last run that reached the engine
\* had a rule item, and frequencies otherwise.
ReadFollowsExecutedRun ==
    (last.op = "read" /\ engine.variant # "none") =>
        (last.args = "rule" <=> engine.variant = "rule")

----------------------------------------------------------------------------
\* Properties of the rule parser.

HasArrow(line) == \E i \in 1..(Len(line) - 1) : SubSeq(line, i, i + 1) = <<"<", "=">>

RuleRead == last.op = "read_rule" \/ (last.op = "read" /\ last.args = "rule")

\* C9: when a line of the output file lacks "<=", reading rules raises an
\* error, returns nothing, and leaves the result attributes and the maps
\* as they were before the call.
AllOrNothing ==
    [][(RuleRead' /\ \E i \in 1..Len(ofile) : ~HasArrow(ofile[i])) =>
           /\ last'.err = "IndexError"
           /\ last'.ret = PyNone
           /\ results' = results
           /\ codec' = codec]_vars

\* a rule line and then a line without "<=", and no rule results held
AllOrNothingWitness ==
    /\ last.op = "read_rule"
    /\ last.err = "IndexError"
    /\ Len(ofile) = 2
    /\ HasArrow(ofile[1])
    /\ ~HasArrow(ofile[2])
    /\ ~results.rule_set

\* the columns read_rule is to return for the rules recs
Columns(recs) ==
    [frequency |-> [i \in 1..Len(recs) |-> Str(recs[i].support)],
     confidence |-> [i \in 1..Len(recs) |-> recs[i].conf],
     source_items |->
        PyList([i \in 1..Len(recs) |->
                  Tr([j \in 1..Len(recs[i].sources) |->
                        item_id2name[Str(recs[i].sources[j])]])]),
     target_item |-> Tr([i \in 1..Len(recs) |-> item_id2name[Str(recs[i].target)]])]

\* C10: for an output file of any number of rule lines, none included, with
\* any number of sources, none included, reading rules succeeds and returns
\* one entry per line in each of the four columns.
RuleReadTotal ==
    RuleRead =>
        \A recs \in SeqsUpTo(RuleRecs, MaxLines) :
            ofile = [i \in 1..Len(recs) |-> RuleLine(recs[i])] =>
                (last.err = "none" /\ last.ret = Columns(recs))

====
